---- MODULE Spec2Model ----
(***************************************************************************)
(* State reconciliation engine of chezmoi (next/internal/chezmoi and       *)
(* next/cmd): target state entries applied to actual state entries through *)
(* a System backend, the script-once persistent state, the verify command  *)
(* and the unmanaged listing.                                              *)
(*                                                                         *)
(* Paths are sequences of path elements (<<"home", "a">> is /home/a);      *)
(* file contents, script contents and link names are sequences of          *)
(* one-character strings.  A lazy value is [ok, v]: ok = FALSE is a lazy   *)
(* whose evaluation returns an error.                                      *)
(***************************************************************************)
EXTENDS Naturals, Sequences, FiniteSets, TLC

VARIABLES
    fs,               \* destination file system: path -> entry
    persistentState,  \* the backend's KV store: set of [bucket, key, value]
    runCount,         \* RunScript invocations issued for each once-script
    last,             \* the operation that ran last: inputs, backend calls, result
    walk,             \* the unmanaged listing: tree, source state, result
    stdin,            \* the process's standard input: bytes, bytes consumed
    keePassXCPassword, \* the process-wide cached password ("" until read)
    keePassXC,        \* runKeePassXCCLICommand: position, pw read so far, result
    children          \* the standard input given to each child process run

keePassXCVars == <<stdin, keePassXCPassword, keePassXC, children>>
vars == <<fs, persistentState, runCount, last, walk, keePassXCVars>>

(***************************************************************************)
(* Bounds of the model.                                                    *)
(***************************************************************************)
MaxRuns == 2
MaxInvocations == 3
MaxPathLen == 4

\* The cap on the length of a password read from a standard input that is
\* not a terminal.
MaxPasswordLen == 1024

(***************************************************************************)
(* Values.                                                                 *)
(***************************************************************************)
DestDir == <<"home">>
Names == {"a", "b"}
Paths == {Append(DestDir, n) : n \in Names}

\* 0o644, 0o666 (files) and 0o755, 0o777 (directories); umasks 0 and 0o022.
FilePerms == {420, 438}
DirPerms == {493, 511}
Umasks == {0, 18}

FileContents == {<<"x">>, <<"y">>}
Linknames == {<<"o">>, <<"n">>}
ScriptNames == {"setup", "other"}
ScriptContents == {<< >>, <<" ", "\n">>, <<"e">>, <<"e", "!">>}

Lazy(v) == [ok |-> TRUE, v |-> v]
LazyErr == [ok |-> FALSE, v |-> << >>]

(***************************************************************************)
(* Supporting utilities.                                                   *)
(***************************************************************************)
RECURSIVE AndNot(_, _)
\* perm &^ umask on unsigned integers, bit by bit.
AndNot(a, b) ==
    IF a = 0 THEN 0
    ELSE (IF a % 2 = 1 /\ b % 2 = 0 THEN 1 ELSE 0) + 2 * AndNot(a \div 2, b \div 2)

umaskPermEqualNoMask(perm1, perm2, umask) == perm1 = perm2

umaskPermEqual(perm1, perm2, umask) == AndNot(perm1, umask) = AndNot(perm2, umask)

\* SHA-256 and hex encoding are injective on the values of the model
\* (collision resistance); a digest and its hex form are distinct values.
Sha256(contents) == [sha256 |-> contents]
HexEncodeToString(digest) == [hex |-> digest]

WhiteSpace == {" ", "\t", "\n", "\r"}
isEmpty(contents) == \A i \in 1..Len(contents) : contents[i] \in WhiteSpace

pathDir(path) == SubSeq(path, 1, Len(path) - 1)
pathJoin(dir, name) == Append(dir, name)

\* A path, absolute ("/home/a") or relative ("a/c"), as a string of characters.
RECURSIVE RelString(_)
RelString(elems) ==
    IF Len(elems) = 0 THEN << >>
    ELSE IF Len(elems) = 1 THEN <<elems[1]>>
    ELSE <<elems[1], "/">> \o RelString(Tail(elems))
PathString(elems) == <<"/">> \o RelString(elems)

HasPrefix(str, prefix) ==
    Len(str) >= Len(prefix) /\ SubSeq(str, 1, Len(prefix)) = prefix

\* Mutant of TrimDirPrefix: the prefix is dir without the "/" after it.
TrimDirPrefixNoSlash(path, dir) ==
    IF ~HasPrefix(path, dir) THEN [v |-> << >>, err |-> TRUE]
    ELSE [v |-> SubSeq(path, Len(dir) + 1, Len(path)), err |-> FALSE]

\* TrimDirPrefix: path with the directory prefix dir stripped, or an error.
TrimDirPrefix(path, dir) ==
    LET prefix == dir \o <<"/">>
    IN IF ~HasPrefix(path, prefix) THEN [v |-> << >>, err |-> TRUE]
       ELSE [v |-> SubSeq(path, Len(prefix) + 1, Len(path)), err |-> FALSE]

\* MustTrimDirPrefix: TrimDirPrefix for a path known to have the prefix.
MustTrimDirPrefix(path, dir) == TrimDirPrefix(path, dir).v

ScriptOnceStateBucket == "scriptOnceState"

(***************************************************************************)
(* System backend: the calls a target state entry issues, and what the     *)
(* real backend does with each.                                            *)
(***************************************************************************)
CallRemoveAll(path) == [op |-> "RemoveAll", path |-> path]
CallWriteFile(path, data, perm) ==
    [op |-> "WriteFile", path |-> path, data |-> data, perm |-> perm]
CallWriteSymlink(oldname, newname) ==
    [op |-> "WriteSymlink", path |-> newname, linkname |-> oldname]
CallMkdir(path, perm) == [op |-> "Mkdir", path |-> path, perm |-> perm]
CallChmod(path, perm) == [op |-> "Chmod", path |-> path, perm |-> perm]
CallRename(oldpath, newpath) ==
    [op |-> "Rename", path |-> oldpath, newpath |-> newpath]
CallRunScript(name, dir, data) ==
    [op |-> "RunScript", name |-> name, dir |-> dir, data |-> data]
CallGet(bucket, key) == [op |-> "Get", bucket |-> bucket, key |-> key]
CallSet(bucket, key, value) ==
    [op |-> "Set", bucket |-> bucket, key |-> key, value |-> value]

\* The calls that change the destination, run a script or write the store.
MutatingOps ==
    {"RemoveAll", "WriteFile", "WriteSymlink", "Mkdir", "Chmod", "Rename",
     "RunScript", "Set"}
IsMutating(call) == call.op \in MutatingOps
Mutating(calls) == SelectSeq(calls, IsMutating)

Absent == [kind |-> "absent"]

\* PersistentState.Get: the value stored under (bucket, key), or nil.
PersistentGet(ps, bucket, key) ==
    {r.value : r \in {x \in ps : x.bucket = bucket /\ x.key = key}}

\* PersistentState.Set: replace the value stored under (bucket, key).
PersistentSet(ps, bucket, key, value) ==
    {x \in ps : ~(x.bucket = bucket /\ x.key = key)}
        \cup {[bucket |-> bucket, key |-> key, value |-> value]}

\* Whether the real backend can carry out call in state st = [fs, ps].
CanSucceed(st, call) ==
    CASE call.op = "Mkdir" ->
            call.path \in Paths /\ st.fs[call.path].kind = "absent"
      [] call.op = "Chmod" ->
            call.path \in Paths /\ st.fs[call.path].kind \in {"dir", "file"}
      [] call.op = "WriteFile" ->
            call.path \in Paths /\ st.fs[call.path].kind \in {"absent", "file"}
      [] call.op = "WriteSymlink" -> call.path \in Paths
      [] call.op = "Rename" ->
            /\ call.path \in Paths
            /\ call.newpath \in Paths
            /\ st.fs[call.path].kind # "absent"
      [] OTHER -> TRUE

\* The state after the real backend has carried out call. A created entry
\* gets perm, with the process umask applied when masked.
RealSystem(st, call, umask, masked) ==
    LET created(perm) == IF masked THEN AndNot(perm, umask) ELSE perm
    IN CASE call.op = "RemoveAll" ->
              IF call.path \in Paths
              THEN [st EXCEPT !.fs[call.path] = Absent]
              ELSE st
         [] call.op = "WriteFile" ->
              [st EXCEPT !.fs[call.path] =
                  [kind |-> "file", perm |-> created(call.perm),
                   contents |-> call.data]]
         [] call.op = "WriteSymlink" ->
              [st EXCEPT !.fs[call.path] =
                  [kind |-> "symlink", linkname |-> call.linkname]]
         [] call.op = "Mkdir" ->
              [st EXCEPT !.fs[call.path] =
                  [kind |-> "dir", perm |-> created(call.perm)]]
         [] call.op = "Chmod" ->
              [st EXCEPT !.fs[call.path].perm = call.perm]
         [] call.op = "Rename" ->
              IF call.path = call.newpath THEN st
              ELSE [st EXCEPT !.fs[call.newpath] = st.fs[call.path],
                              !.fs[call.path] = Absent]
         [] call.op = "Set" ->
              [st EXCEPT !.ps =
                  PersistentSet(st.ps, call.bucket, call.key, call.value)]
         [] OTHER -> st

RECURSIVE ExecCalls(_, _, _, _)
\* The state after the calls have been carried out in order.
ExecCalls(st, calls, umask, masked) ==
    IF calls = << >> THEN st
    ELSE ExecCalls(RealSystem(st, Head(calls), umask, masked), Tail(calls),
                   umask, masked)

RECURSIVE Feasible(_, _, _, _)
\* Every call can be carried out in the state the calls before it leave.
Feasible(st, calls, umask, masked) ==
    IF calls = << >> THEN TRUE
    ELSE /\ CanSucceed(st, Head(calls))
         /\ Feasible(RealSystem(st, Head(calls), umask, masked), Tail(calls),
                     umask, masked)

(***************************************************************************)
(* The result of Apply: the backend calls issued (ops), those that         *)
(* succeeded (done) and the error returned.  fail is the position of the   *)
(* backend call that returns an error (0: none does).                      *)
(***************************************************************************)
Return(calls, err) == [ops |-> calls, done |-> calls, err |-> err]

Run(calls, fail) ==
    IF fail \in 1..Len(calls)
    THEN [ops |-> SubSeq(calls, 1, fail), done |-> SubSeq(calls, 1, fail - 1),
          err |-> "system"]
    ELSE Return(calls, "nil")

(***************************************************************************)
(* Actual state entries.                                                   *)
(***************************************************************************)
\* GetActualStateEntry: lstat, with lazily read contents or link name;
\* readOk = FALSE is an entry whose lazy read returns an error.
GetActualStateEntry(fsx, path, readOk) ==
    LET e == fsx[path]
    IN CASE e.kind = "absent" -> [kind |-> "absent", path |-> path]
         [] e.kind = "dir" -> [kind |-> "dir", path |-> path, perm |-> e.perm]
         [] e.kind = "file" ->
              [kind |-> "file", path |-> path, perm |-> e.perm,
               lazy |-> IF readOk THEN Lazy(e.contents) ELSE LazyErr]
         [] e.kind = "symlink" ->
              [kind |-> "symlink", path |-> path,
               lazy |-> IF readOk THEN Lazy(e.linkname) ELSE LazyErr]

\* ActualStateEntry.Remove: nothing for an absent entry, RemoveAll otherwise.
ActualRemove(actualStateEntry) ==
    IF actualStateEntry.kind = "absent" THEN << >>
    ELSE <<CallRemoveAll(actualStateEntry.path)>>

(***************************************************************************)
(* Target state entries.                                                   *)
(***************************************************************************)
TargetStateAbsent == [kind |-> "absent"]
TargetStateDir(perm) == [kind |-> "dir", perm |-> perm]
TargetStateFile(lazyContents, perm) ==
    [kind |-> "file", lazy |-> lazyContents, perm |-> perm]
TargetStatePresent(lazyContents, perm) ==
    [kind |-> "present", lazy |-> lazyContents, perm |-> perm]
TargetStateRenameDir(oldName, newName) ==
    [kind |-> "renamedir", oldName |-> oldName, newName |-> newName]
TargetStateScript(lazyContents, name, once) ==
    [kind |-> "script", lazy |-> lazyContents, name |-> name, once |-> once]
TargetStateSymlink(lazyLinkname) == [kind |-> "symlink", lazy |-> lazyLinkname]

\* The record persisted for a script that ran (the time it ran at is not
\* modelled).
scriptOnceState(name) == [Name |-> name]

\* Mutant of TargetStateAbsent.Apply: the directory that holds the entry is
\* removed.
TargetStateAbsentApplyRemoveDir(t, actualStateEntry, umask, ps, fail) ==
    IF actualStateEntry.kind = "absent" THEN Return(<< >>, "nil")
    ELSE Run(<<CallRemoveAll(pathDir(actualStateEntry.path))>>, fail)

\* TargetStateAbsent.Apply
TargetStateAbsentApply(t, actualStateEntry, umask, ps, fail) ==
    IF actualStateEntry.kind = "absent" THEN Return(<< >>, "nil")
    ELSE Run(<<CallRemoveAll(actualStateEntry.path)>>, fail)

\* TargetStateAbsent.Equal
TargetStateAbsentEqual(t, actualStateEntry, umask) ==
    [eq |-> actualStateEntry.kind = "absent", err |-> "nil"]

TargetStateDirApplyNoRemove(t, actualStateEntry, umask, ps, fail) ==
    IF actualStateEntry.kind = "dir"
    THEN IF umaskPermEqual(actualStateEntry.perm, t.perm, umask)
         THEN Return(<< >>, "nil")
         ELSE Run(<<CallChmod(actualStateEntry.path, t.perm)>>, fail)
    ELSE Run(<<CallMkdir(actualStateEntry.path, t.perm)>>, fail)

\* TargetStateDir.Apply
TargetStateDirApply(t, actualStateEntry, umask, ps, fail) ==
    IF actualStateEntry.kind = "dir"
    THEN IF umaskPermEqual(actualStateEntry.perm, t.perm, umask)
         THEN Return(<< >>, "nil")
         ELSE Run(<<CallChmod(actualStateEntry.path, t.perm)>>, fail)
    ELSE Run(ActualRemove(actualStateEntry)
                 \o <<CallMkdir(actualStateEntry.path, t.perm)>>, fail)

\* TargetStateDir.Equal
TargetStateDirEqual(t, actualStateEntry, umask) ==
    [eq |-> /\ actualStateEntry.kind = "dir"
            /\ umaskPermEqual(actualStateEntry.perm, t.perm, umask),
     err |-> "nil"]

\* Mutant of WriteContents: the file is written with the default permissions
\* 0o666 instead of the target's.
WriteContentsDefaultPerm(t, actualStateEntry, removed, fail) ==
    IF Run(removed, fail).err # "nil" THEN Run(removed, fail)
    ELSE IF ~t.lazy.ok THEN Return(removed, "eval")
    ELSE Run(removed \o <<CallWriteFile(actualStateEntry.path, t.lazy.v, 438)>>,
             fail)

\* The tail of TargetStateFile.Apply and TargetStatePresent.Apply: evaluate
\* the contents and write them, after the calls in removed have succeeded.
WriteContents(t, actualStateEntry, removed, fail) ==
    IF Run(removed, fail).err # "nil" THEN Run(removed, fail)
    ELSE IF ~t.lazy.ok THEN Return(removed, "eval")
    ELSE Run(removed \o <<CallWriteFile(actualStateEntry.path, t.lazy.v, t.perm)>>,
             fail)

\* Mutants of TargetStateFile.Apply: one that removes the file before it
\* rewrites it, one that rewrites without comparing the contents, one that
\* leaves the permissions of a file with the right contents alone.
TargetStateFileApplyRemoveFirst(t, actualStateEntry, umask, ps, fail) ==
    IF actualStateEntry.kind = "file"
    THEN IF ~actualStateEntry.lazy.ok THEN Return(<< >>, "actual")
         ELSE IF ~t.lazy.ok THEN Return(<< >>, "eval")
         ELSE IF Sha256(actualStateEntry.lazy.v) = Sha256(t.lazy.v)
         THEN IF umaskPermEqual(actualStateEntry.perm, t.perm, umask)
              THEN Return(<< >>, "nil")
              ELSE Run(<<CallChmod(actualStateEntry.path, t.perm)>>, fail)
         ELSE WriteContents(t, actualStateEntry, ActualRemove(actualStateEntry), fail)
    ELSE WriteContents(t, actualStateEntry, ActualRemove(actualStateEntry), fail)

TargetStateFileApplyAlwaysWrite(t, actualStateEntry, umask, ps, fail) ==
    IF actualStateEntry.kind = "file"
    THEN WriteContents(t, actualStateEntry, << >>, fail)
    ELSE WriteContents(t, actualStateEntry, ActualRemove(actualStateEntry), fail)

TargetStateFileApplyNoChmod(t, actualStateEntry, umask, ps, fail) ==
    IF actualStateEntry.kind = "file"
    THEN IF ~actualStateEntry.lazy.ok THEN Return(<< >>, "actual")
         ELSE IF ~t.lazy.ok THEN Return(<< >>, "eval")
         ELSE IF Sha256(actualStateEntry.lazy.v) = Sha256(t.lazy.v)
         THEN Return(<< >>, "nil")
         ELSE WriteContents(t, actualStateEntry, << >>, fail)
    ELSE WriteContents(t, actualStateEntry, ActualRemove(actualStateEntry), fail)

\* Mutant: a file with the right contents and other permissions is rewritten.
TargetStateFileApplyRewriteOnPerm(t, actualStateEntry, umask, ps, fail) ==
    IF actualStateEntry.kind = "file"
    THEN IF ~actualStateEntry.lazy.ok THEN Return(<< >>, "actual")
         ELSE IF ~t.lazy.ok THEN Return(<< >>, "eval")
         ELSE IF /\ Sha256(actualStateEntry.lazy.v) = Sha256(t.lazy.v)
                 /\ umaskPermEqual(actualStateEntry.perm, t.perm, umask)
         THEN Return(<< >>, "nil")
         ELSE WriteContents(t, actualStateEntry, << >>, fail)
    ELSE WriteContents(t, actualStateEntry, ActualRemove(actualStateEntry), fail)

\* TargetStateFile.Apply
TargetStateFileApply(t, actualStateEntry, umask, ps, fail) ==
    IF actualStateEntry.kind = "file"
    THEN IF ~actualStateEntry.lazy.ok THEN Return(<< >>, "actual")
         ELSE IF ~t.lazy.ok THEN Return(<< >>, "eval")
         ELSE IF Sha256(actualStateEntry.lazy.v) = Sha256(t.lazy.v)
         THEN IF umaskPermEqual(actualStateEntry.perm, t.perm, umask)
              THEN Return(<< >>, "nil")
              ELSE Run(<<CallChmod(actualStateEntry.path, t.perm)>>, fail)
         ELSE WriteContents(t, actualStateEntry, << >>, fail)
    ELSE WriteContents(t, actualStateEntry, ActualRemove(actualStateEntry), fail)

\* TargetStateFile.Equal
TargetStateFileEqual(t, actualStateEntry, umask) ==
    IF actualStateEntry.kind # "file" THEN [eq |-> FALSE, err |-> "nil"]
    ELSE IF ~umaskPermEqual(actualStateEntry.perm, t.perm, umask)
    THEN [eq |-> FALSE, err |-> "nil"]
    ELSE IF ~actualStateEntry.lazy.ok THEN [eq |-> FALSE, err |-> "actual"]
    ELSE IF ~t.lazy.ok THEN [eq |-> FALSE, err |-> "eval"]
    ELSE [eq |-> Sha256(actualStateEntry.lazy.v) = Sha256(t.lazy.v),
          err |-> "nil"]

\* Mutant of TargetStatePresent.Apply: the contents are compared, as for a
\* file target.
TargetStatePresentApplyCompare(t, actualStateEntry, umask, ps, fail) ==
    TargetStateFileApply(t, actualStateEntry, umask, ps, fail)

\* TargetStatePresent.Apply
TargetStatePresentApply(t, actualStateEntry, umask, ps, fail) ==
    IF actualStateEntry.kind = "file"
    THEN IF umaskPermEqual(actualStateEntry.perm, t.perm, umask)
         THEN Return(<< >>, "nil")
         ELSE Run(<<CallChmod(actualStateEntry.path, t.perm)>>, fail)
    ELSE WriteContents(t, actualStateEntry, ActualRemove(actualStateEntry), fail)

\* TargetStatePresent.Equal
TargetStatePresentEqual(t, actualStateEntry, umask) ==
    [eq |-> /\ actualStateEntry.kind = "file"
            /\ umaskPermEqual(actualStateEntry.perm, t.perm, umask),
     err |-> "nil"]

\* TargetStateRenameDir.Apply
TargetStateRenameDirApply(t, actualStateEntry, umask, ps, fail) ==
    LET dir == pathDir(actualStateEntry.path)
    IN Run(<<CallRename(pathJoin(dir, t.oldName), pathJoin(dir, t.newName))>>,
           fail)

\* TargetStateRenameDir.Equal
TargetStateRenameDirEqual(t, actualStateEntry, umask) ==
    [eq |-> FALSE, err |-> "nil"]

\* Mutant of scriptOnceKey: the key is derived from the script's name.
scriptOnceKeyOfName(t) == HexEncodeToString(Sha256(<<t.name>>))

\* The key of a once-script: key = []byte(hex.EncodeToString(contentsSHA256)).
scriptOnceKey(t) == HexEncodeToString(Sha256(t.lazy.v))

\* Mutant of TargetStateScript.Apply: the record is written before the
\* script runs.
TargetStateScriptApplySetFirst(t, actualStateEntry, umask, ps, fail) ==
    LET get == CallGet(ScriptOnceStateBucket, scriptOnceKey(t))
        run == CallRunScript(t.name, pathDir(actualStateEntry.path), t.lazy.v)
        set == CallSet(ScriptOnceStateBucket, scriptOnceKey(t),
                       scriptOnceState(t.name))
    IN IF ~t.lazy.ok THEN Return(<< >>, "eval")
       ELSE IF ~t.once
       THEN IF isEmpty(t.lazy.v) THEN Return(<< >>, "nil")
            ELSE Run(<<run>>, fail)
       ELSE IF Run(<<get>>, fail).err # "nil" THEN Run(<<get>>, fail)
       ELSE IF PersistentGet(ps, ScriptOnceStateBucket, scriptOnceKey(t)) # {}
       THEN Return(<<get>>, "nil")
       ELSE IF isEmpty(t.lazy.v) THEN Return(<<get>>, "nil")
       ELSE Run(<<get, set, run>>, fail)

\* Mutant of TargetStateScript.Apply: no record is written after the run.
TargetStateScriptApplyNoRecord(t, actualStateEntry, umask, ps, fail) ==
    LET get == CallGet(ScriptOnceStateBucket, scriptOnceKey(t))
        run == CallRunScript(t.name, pathDir(actualStateEntry.path), t.lazy.v)
    IN IF ~t.lazy.ok THEN Return(<< >>, "eval")
       ELSE IF ~t.once
       THEN IF isEmpty(t.lazy.v) THEN Return(<< >>, "nil")
            ELSE Run(<<run>>, fail)
       ELSE IF Run(<<get>>, fail).err # "nil" THEN Run(<<get>>, fail)
       ELSE IF PersistentGet(ps, ScriptOnceStateBucket, scriptOnceKey(t)) # {}
       THEN Return(<<get>>, "nil")
       ELSE IF isEmpty(t.lazy.v) THEN Return(<<get>>, "nil")
       ELSE Run(<<get, run>>, fail)

\* Mutant of TargetStateScript.Apply: a script is run whether or not it has
\* contents.
TargetStateScriptApplyRunEmpty(t, actualStateEntry, umask, ps, fail) ==
    LET get == CallGet(ScriptOnceStateBucket, scriptOnceKey(t))
        run == CallRunScript(t.name, pathDir(actualStateEntry.path), t.lazy.v)
        set == CallSet(ScriptOnceStateBucket, scriptOnceKey(t),
                       scriptOnceState(t.name))
    IN IF ~t.lazy.ok THEN Return(<< >>, "eval")
       ELSE IF ~t.once THEN Run(<<run>>, fail)
       ELSE IF Run(<<get>>, fail).err # "nil" THEN Run(<<get>>, fail)
       ELSE IF PersistentGet(ps, ScriptOnceStateBucket, scriptOnceKey(t)) # {}
       THEN Return(<<get>>, "nil")
       ELSE Run(<<get, run, set>>, fail)

\* TargetStateScript.Apply
TargetStateScriptApply(t, actualStateEntry, umask, ps, fail) ==
    LET get == CallGet(ScriptOnceStateBucket, scriptOnceKey(t))
        run == CallRunScript(t.name, pathDir(actualStateEntry.path), t.lazy.v)
        set == CallSet(ScriptOnceStateBucket, scriptOnceKey(t),
                       scriptOnceState(t.name))
    IN IF ~t.lazy.ok THEN Return(<< >>, "eval")
       ELSE IF ~t.once
       THEN IF isEmpty(t.lazy.v) THEN Return(<< >>, "nil")
            ELSE Run(<<run>>, fail)
       ELSE IF Run(<<get>>, fail).err # "nil" THEN Run(<<get>>, fail)
       ELSE IF PersistentGet(ps, ScriptOnceStateBucket, scriptOnceKey(t)) # {}
       THEN Return(<<get>>, "nil")
       ELSE IF isEmpty(t.lazy.v) THEN Return(<<get>>, "nil")
       ELSE Run(<<get, run, set>>, fail)

\* TargetStateScript.Equal
TargetStateScriptEqual(t, actualStateEntry, umask) ==
    [eq |-> TRUE, err |-> "nil"]

\* Mutant of TargetStateSymlink.Apply: the symlink is written over the entry
\* in place, without a remove.
TargetStateSymlinkApplyNoRemove(t, actualStateEntry, umask, ps, fail) ==
    IF actualStateEntry.kind = "symlink" /\ ~actualStateEntry.lazy.ok
    THEN Return(<< >>, "actual")
    ELSE IF ~t.lazy.ok THEN Return(<< >>, "eval")
    ELSE IF actualStateEntry.kind = "symlink"
            /\ actualStateEntry.lazy.v = t.lazy.v
    THEN Return(<< >>, "nil")
    ELSE Run(<<CallWriteSymlink(t.lazy.v, actualStateEntry.path)>>, fail)

\* TargetStateSymlink.Apply
TargetStateSymlinkApply(t, actualStateEntry, umask, ps, fail) ==
    IF actualStateEntry.kind = "symlink" /\ ~actualStateEntry.lazy.ok
    THEN Return(<< >>, "actual")
    ELSE IF ~t.lazy.ok THEN Return(<< >>, "eval")
    ELSE IF actualStateEntry.kind = "symlink"
            /\ actualStateEntry.lazy.v = t.lazy.v
    THEN Return(<< >>, "nil")
    ELSE Run(ActualRemove(actualStateEntry)
                 \o <<CallWriteSymlink(t.lazy.v, actualStateEntry.path)>>, fail)

\* TargetStateSymlink.Equal (a target link name that fails to evaluate is
\* reported as "not equal", without the error).
TargetStateSymlinkEqual(t, actualStateEntry, umask) ==
    IF actualStateEntry.kind # "symlink" THEN [eq |-> FALSE, err |-> "nil"]
    ELSE IF ~actualStateEntry.lazy.ok THEN [eq |-> FALSE, err |-> "actual"]
    ELSE IF ~t.lazy.ok THEN [eq |-> FALSE, err |-> "nil"]
    ELSE [eq |-> actualStateEntry.lazy.v = t.lazy.v, err |-> "nil"]

\* TargetStateEntry.Apply, dispatched on the variant.
TargetStateEntryApply(t, actualStateEntry, umask, ps, fail) ==
    CASE t.kind = "absent" ->
            TargetStateAbsentApply(t, actualStateEntry, umask, ps, fail)
      [] t.kind = "dir" ->
            TargetStateDirApply(t, actualStateEntry, umask, ps, fail)
      [] t.kind = "file" ->
            TargetStateFileApply(t, actualStateEntry, umask, ps, fail)
      [] t.kind = "present" ->
            TargetStatePresentApply(t, actualStateEntry, umask, ps, fail)
      [] t.kind = "renamedir" ->
            TargetStateRenameDirApply(t, actualStateEntry, umask, ps, fail)
      [] t.kind = "script" ->
            TargetStateScriptApply(t, actualStateEntry, umask, ps, fail)
      [] t.kind = "symlink" ->
            TargetStateSymlinkApply(t, actualStateEntry, umask, ps, fail)

\* TargetStateEntry.Equal, dispatched on the variant.
TargetStateEntryEqual(t, actualStateEntry, umask) ==
    CASE t.kind = "absent" -> TargetStateAbsentEqual(t, actualStateEntry, umask)
      [] t.kind = "dir" -> TargetStateDirEqual(t, actualStateEntry, umask)
      [] t.kind = "file" -> TargetStateFileEqual(t, actualStateEntry, umask)
      [] t.kind = "present" -> TargetStatePresentEqual(t, actualStateEntry, umask)
      [] t.kind = "renamedir" -> TargetStateRenameDirEqual(t, actualStateEntry, umask)
      [] t.kind = "script" -> TargetStateScriptEqual(t, actualStateEntry, umask)
      [] t.kind = "symlink" -> TargetStateSymlinkEqual(t, actualStateEntry, umask)

(***************************************************************************)
(* The target state entries the model applies.                             *)
(***************************************************************************)
LazyContents == {Lazy(c) : c \in FileContents} \cup {LazyErr}
LazyLinknames == {Lazy(l) : l \in Linknames} \cup {LazyErr}

FileTargets ==
    {TargetStateAbsent}
        \cup {TargetStateDir(perm) : perm \in DirPerms}
        \cup {TargetStateFile(c, perm) : c \in LazyContents, perm \in FilePerms}
        \cup {TargetStatePresent(c, perm) : c \in LazyContents, perm \in FilePerms}
        \cup {TargetStateSymlink(l) : l \in LazyLinknames}
        \cup {TargetStateRenameDir(o, n) : o \in Names, n \in Names}

\* All scripts, and the few of them applied next to the file targets.
ScriptTargets ==
    {TargetStateScript(c, name, once) :
        c \in {Lazy(x) : x \in ScriptContents} \cup {LazyErr},
        name \in ScriptNames, once \in BOOLEAN}
FewScriptTargets ==
    {t \in ScriptTargets :
        t.name = "setup" /\ t.lazy \in {Lazy(<< >>), Lazy(<<"e">>)}}

Targets == FileTargets \cup FewScriptTargets

(***************************************************************************)
(* State.                                                                  *)
(***************************************************************************)
Entries ==
    {Absent}
        \cup {[kind |-> "dir", perm |-> perm] : perm \in DirPerms}
        \cup {[kind |-> "file", perm |-> perm, contents |-> c] :
                 perm \in FilePerms, c \in FileContents}
        \cup {[kind |-> "symlink", linkname |-> l] : l \in Linknames}

NoRuns == [c \in ScriptContents |-> [invoked |-> 0, applied |-> 0]]
NoWalk == [op |-> "none"]

\* No credential tool is in use: nothing on standard input, no password read.
Idle == [pc |-> "idle", pw |-> << >>, start |-> 0, invocations |-> 0,
         passwordsRead |-> << >>, ret |-> [err |-> "none"]]
NoKeePassXC ==
    /\ stdin = [tty |-> FALSE, data |-> << >>, pos |-> 0, end |-> "EOF"]
    /\ keePassXCPassword = << >>
    /\ keePassXC = Idle
    /\ children = << >>

\* An empty destination, an empty persistent state, nothing run yet.
Init ==
    /\ fs = [p \in Paths |-> Absent]
    /\ persistentState = {}
    /\ runCount = NoRuns
    /\ last = [op |-> "none"]
    /\ walk = NoWalk
    /\ NoKeePassXC

\* Whether the calls issued include a RunScript.
RanScript(calls) == \E i \in 1..Len(calls) : calls[i].op = "RunScript"

\* The count of RunScript invocations of once-scripts, by contents: invoked
\* counts the invocations, applied those of an Apply that returned nil.
CountRuns(t, r) ==
    IF t.kind = "script" /\ t.once /\ RanScript(r.ops)
    THEN [runCount EXCEPT
            ![t.lazy.v].invoked = @ + 1,
            ![t.lazy.v].applied = IF r.err = "nil" THEN @ + 1 ELSE @]
    ELSE runCount

\* One entry of a reconciliation pass against the real backend: probe the
\* actual state of path, then target.Apply(system, actual, umask).
Apply(path, t, umask, readOk, fail, masked) ==
    LET actual == GetActualStateEntry(fs, path, readOk)
        r == TargetStateEntryApply(t, actual, umask, persistentState, fail)
        before == [fs |-> fs, ps |-> persistentState]
        after == ExecCalls(before, r.done, umask, masked)
    IN /\ Feasible(before, r.done, umask, masked)
       /\ t.kind = "script" /\ t.once /\ RanScript(r.ops)
            => runCount[t.lazy.v].invoked < MaxRuns
       /\ fs' = after.fs
       /\ persistentState' = after.ps
       /\ runCount' = CountRuns(t, r)
       /\ last' = [op |-> "apply", path |-> path, target |-> t, umask |-> umask,
                   actual |-> actual, ps |-> persistentState,
                   ops |-> r.ops, err |-> r.err]
       /\ UNCHANGED <<walk, keePassXCVars>>

\* The inputs of one Apply that make a difference: a lazy read can fail only
\* for a file or a symlink, a backend call only if it is issued, and the
\* process umask only shows in an entry that is created.
ReadOks(path) ==
    IF fs[path].kind \in {"file", "symlink"} THEN BOOLEAN ELSE {TRUE}
FailsOf(path, t, umask, readOk) ==
    0..Len(TargetStateEntryApply(t, GetActualStateEntry(fs, path, readOk), umask,
                                 persistentState, 0).ops)
Maskeds(t) == IF t.kind \in {"dir", "file", "present"} THEN BOOLEAN ELSE {FALSE}

ApplyEntry ==
    /\ last.op = "none"
    /\ \E path \in Paths, t \in Targets, umask \in Umasks :
        \E readOk \in ReadOks(path) :
            \E fail \in FailsOf(path, t, umask, readOk), masked \in Maskeds(t) :
                Apply(path, t, umask, readOk, fail, masked)

\* The driver takes the result of the operation and moves on to the next.
NextEntry ==
    /\ last.op # "none"
    /\ last' = [op |-> "none"]
    /\ UNCHANGED <<fs, persistentState, runCount, walk, keePassXCVars>>

Next == ApplyEntry \/ NextEntry

Spec == Init /\ [][Next]_vars

\* Reconciliation passes over scripts alone, all of them.
ApplyScript ==
    /\ last.op = "none"
    /\ \E path \in Paths, t \in ScriptTargets, umask \in Umasks :
        \E fail \in FailsOf(path, t, umask, TRUE) :
            Apply(path, t, umask, TRUE, fail, FALSE)

NextScripts == ApplyScript \/ NextEntry

SpecScripts == Init /\ [][NextScripts]_vars

(***************************************************************************)
(* Equal of a target state entry and the actual state entry of a path.     *)
(***************************************************************************)
Equal(path, t, umask, readOk) ==
    LET actual == GetActualStateEntry(fs, path, readOk)
    IN /\ last' = [op |-> "equal", path |-> path, target |-> t, umask |-> umask,
                   actual |-> actual,
                   ret |-> TargetStateEntryEqual(t, actual, umask)]
       /\ UNCHANGED <<fs, persistentState, runCount, walk, keePassXCVars>>

EqualEntry ==
    /\ last.op = "none"
    /\ \E path \in Paths, t \in Targets, umask \in Umasks :
        \E readOk \in ReadOks(path) : Equal(path, t, umask, readOk)

\* Any destination.
InitEqual ==
    /\ fs \in [Paths -> Entries]
    /\ persistentState = {}
    /\ runCount = NoRuns
    /\ last = [op |-> "none"]
    /\ walk = NoWalk
    /\ NoKeePassXC

NextEqual == EqualEntry \/ NextEntry

SpecEqual == InitEqual /\ [][NextEqual]_vars

(***************************************************************************)
(* The verify command: the targets applied to a dry-run backend.           *)
(***************************************************************************)
\* TargetStateEntry.Evaluate: the error of the lazy contents or link name.
TargetStateEntryEvaluate(t) ==
    IF t.kind \in {"file", "present", "script", "symlink"} /\ ~t.lazy.ok
    THEN "eval"
    ELSE "nil"

\* DryRunSystem: reads are forwarded, a mutating call is not carried out and
\* sets the modified flag.
DryRunModified(modified, calls) == modified \/ Mutating(calls) # << >>

NotManaged == [kind |-> "none"]
SortedPaths == <<Append(DestDir, "a"), Append(DestDir, "b")>>

RECURSIVE applyArgs(_, _, _, _, _)
\* applyArgs against the dry-run backend, from the i-th path on: each target
\* is evaluated, its actual state probed and the target applied; the first
\* error ends the pass.
applyArgs(sourceState, umask, readOk, i, modified) ==
    IF i > Len(SortedPaths) THEN [modified |-> modified, err |-> "nil"]
    ELSE LET path == SortedPaths[i]
             t == sourceState[path]
             actual == GetActualStateEntry(fs, path, readOk)
             r == TargetStateEntryApply(t, actual, umask, persistentState, 0)
         IN IF t = NotManaged
            THEN applyArgs(sourceState, umask, readOk, i + 1, modified)
            ELSE IF TargetStateEntryEvaluate(t) # "nil"
            THEN [modified |-> modified, err |-> TargetStateEntryEvaluate(t)]
            ELSE IF r.err # "nil"
            THEN [modified |-> DryRunModified(modified, r.ops), err |-> r.err]
            ELSE applyArgs(sourceState, umask, readOk, i + 1,
                           DryRunModified(modified, r.ops))

\* Mutant of runVerifyCmd: the modified flag is consulted before the error.
runVerifyCmdModifiedFirst(pass) ==
    IF pass.modified THEN "exit1"
    ELSE IF pass.err # "nil" THEN "error"
    ELSE "nil"

\* runVerifyCmd: the error of the pass, else exit code 1 if the dry-run
\* backend was modified, else success.
runVerifyCmd(pass) ==
    IF pass.err # "nil" THEN "error"
    ELSE IF pass.modified THEN "exit1"
    ELSE "nil"

VerifyTargets ==
    {TargetStateAbsent, TargetStateDir(493),
     TargetStateFile(Lazy(<<"x">>), 420), TargetStateFile(LazyErr, 420),
     TargetStatePresent(Lazy(<<"y">>), 438),
     TargetStateRenameDir("a", "b"),
     TargetStateScript(Lazy(<<"e">>), "setup", TRUE),
     TargetStateSymlink(Lazy(<<"o">>))}
SourceStates == [Paths -> VerifyTargets \cup {NotManaged}]

Verify(sourceState, umask, readOk) ==
    LET pass == applyArgs(sourceState, umask, readOk, 1, FALSE)
    IN /\ last' = [op |-> "verify", sourceState |-> sourceState,
                   umask |-> umask, readOk |-> readOk,
                   modified |-> pass.modified, err |-> pass.err,
                   result |-> runVerifyCmd(pass)]
       /\ UNCHANGED <<fs, persistentState, runCount, walk, keePassXCVars>>

VerifyCmd ==
    /\ last.op = "none"
    /\ \E sourceState \in SourceStates, umask \in Umasks, readOk \in BOOLEAN :
        Verify(sourceState, umask, readOk)

\* Any destination, with or without the record of the script.
InitVerify ==
    /\ fs \in [Paths -> Entries]
    /\ persistentState \in
         {{}, {[bucket |-> ScriptOnceStateBucket,
                key |-> HexEncodeToString(Sha256(<<"e">>)),
                value |-> scriptOnceState("setup")]}}
    /\ runCount = NoRuns
    /\ last = [op |-> "none"]
    /\ walk = NoWalk
    /\ NoKeePassXC

NextVerify == VerifyCmd \/ NextEntry

SpecVerify == InitVerify /\ [][NextVerify]_vars

(***************************************************************************)
(* The unmanaged listing: a walk of the destination directory.             *)
(***************************************************************************)
\* The entries a destination tree can hold, relative to the destination
\* directory, and the names of a directory in lexical order.
WalkNodes == {<<"a">>, <<"a", "c">>, <<"a", "c", "c">>, <<"b">>}
WalkNames == <<"a", "b", "c">>
WalkKinds == {"absent", "file", "dir"}

\* A tree holds an entry only in a directory it holds.
IsTree(tree) ==
    \A n \in WalkNodes :
        tree[n] # "absent" /\ Len(n) > 1
            => tree[SubSeq(n, 1, Len(n) - 1)] = "dir"
Trees == {tree \in [WalkNodes -> WalkKinds] : IsTree(tree)}

\* The target names of a source state: with an entry, the directories above it.
TargetNames == {RelString(n) : n \in WalkNodes}
IsSourceState(names) ==
    \A n \in WalkNodes :
        RelString(n) \in names /\ Len(n) > 1
            => RelString(SubSeq(n, 1, Len(n) - 1)) \in names
ManagedSets == {names \in SUBSET TargetNames : IsSourceState(names)}

\* The entries of directory rel, in lexical order.
ReadDir(tree, rel) ==
    SelectSeq([i \in 1..Len(WalkNames) |-> Append(rel, WalkNames[i])],
              LAMBDA n : n \in WalkNodes /\ tree[n] # "absent")

\* Mutant of the walk function: no directory is skipped.
unmanagedWalkFuncNoSkip(w, path, isDir, err) ==
    IF err THEN [out |-> << >>, res |-> "error"]
    ELSE IF path = PathString(DestDir) THEN [out |-> << >>, res |-> "nil"]
    ELSE LET targetName == MustTrimDirPrefix(path, PathString(DestDir))
             managed == targetName \in w.managed
             ignored == targetName \in w.ignored
         IN [out |-> IF ~managed /\ ~ignored THEN <<targetName>> ELSE << >>,
             res |-> "nil"]

\* The walk function of runUnmanagedCmd: what it writes for one path and
\* what it returns.
unmanagedWalkFunc(w, path, isDir, err) ==
    IF err THEN [out |-> << >>, res |-> "error"]
    ELSE IF path = PathString(DestDir) THEN [out |-> << >>, res |-> "nil"]
    ELSE LET targetName == MustTrimDirPrefix(path, PathString(DestDir))
             managed == targetName \in w.managed
             ignored == targetName \in w.ignored
         IN [out |-> IF ~managed /\ ~ignored THEN <<targetName>> ELSE << >>,
             res |-> IF isDir /\ (~managed \/ ignored) THEN "SkipDir" ELSE "nil"]

RECURSIVE WalkSlash(_, _, _)
RECURSIVE WalkEntries(_, _, _)
\* vfs.WalkSlash from rel on: the walk function is called for the entry; a
\* directory it does not skip is walked in lexical order; an error ends the
\* walk. acc is [out, res], what was written so far.
WalkSlash(w, rel, acc) ==
    LET isDir == rel = << >> \/ w.tree[rel] = "dir"
        r == unmanagedWalkFunc(w, PathString(DestDir \o rel), isDir,
                               w.errAt = rel)
        here == [out |-> acc.out \o r.out, res |-> r.res]
    IN IF r.res = "error" THEN here
       ELSE IF r.res = "SkipDir" \/ ~isDir THEN [here EXCEPT !.res = "nil"]
       ELSE WalkEntries(w, ReadDir(w.tree, rel), [here EXCEPT !.res = "nil"])

WalkEntries(w, entries, acc) ==
    IF entries = << >> \/ acc.res = "error" THEN acc
    ELSE WalkEntries(w, Tail(entries), WalkSlash(w, Head(entries), acc))

\* runUnmanagedCmd: the names written, none when the walk returns an error.
runUnmanagedCmd(w) ==
    LET r == WalkSlash(w, << >>, [out |-> << >>, res |-> "nil"])
    IN IF r.res = "error" THEN [output |-> << >>, err |-> TRUE]
       ELSE [output |-> r.out, err |-> FALSE]

UnmanagedCmd ==
    /\ walk.op = "ready"
    /\ walk' = [walk EXCEPT !.op = "done",
                            !.output = runUnmanagedCmd(walk).output,
                            !.err = runUnmanagedCmd(walk).err]
    /\ UNCHANGED <<fs, persistentState, runCount, last, keePassXCVars>>

\* Any destination tree, source state and ignored set; errAt is the entry
\* whose lstat fails (<< >>: the destination directory, <<"none">>: none).
InitUnmanaged ==
    /\ fs = [p \in Paths |-> Absent]
    /\ persistentState = {}
    /\ runCount = NoRuns
    /\ last = [op |-> "none"]
    /\ NoKeePassXC
    /\ \E tree \in Trees, managed \in ManagedSets, ignored \in SUBSET TargetNames :
        \E errAt \in {<<"none">>, << >>} \cup {n \in WalkNodes : tree[n] # "absent"} :
            walk = [op |-> "ready", tree |-> tree, managed |-> managed,
                    ignored |-> ignored, errAt |-> errAt,
                    output |-> << >>, err |-> FALSE]

NextUnmanaged == UnmanagedCmd

SpecUnmanaged == InitUnmanaged /\ [][NextUnmanaged]_vars

(***************************************************************************)
(* The credential tool (keepassxc-cli): the password read from standard    *)
(* input, cached process-wide and piped to every child process.            *)
(***************************************************************************)
\* The bytes not yet consumed, the position of the first LF among them (0:
\* none), the line before it, and a line without its CRs.
Rest(data, pos) == SubSeq(data, pos + 1, Len(data))
FirstLF(bytes) ==
    LET lfs == {i \in 1..Len(bytes) : bytes[i] = "\n"}
    IN IF lfs = {} THEN 0 ELSE CHOOSE i \in lfs : \A j \in lfs : i <= j
Line(bytes) ==
    IF FirstLF(bytes) = 0 THEN bytes ELSE SubSeq(bytes, 1, FirstLF(bytes) - 1)
NotCR(b) == b # "\r"
StripCR(bytes) == SelectSeq(bytes, NotCR)

\* os.Stdin.Read(b[:]) with a buffer of one byte: the next byte, or no byte
\* and the error that ends the input.
osStdinRead(in) ==
    IF in.pos < Len(in.data)
    THEN [n |-> 1, b |-> in.data[in.pos + 1], err |-> "nil"]
    ELSE [n |-> 0, b |-> "", err |-> in.end]

\* term.ReadPassword on a terminal: the line up to LF without its CRs; an
\* input that ends without LF is accepted if the line is not empty.
termReadPassword(in) ==
    LET rest == Rest(in.data, in.pos)
        pw == StripCR(Line(rest))
    IN IF FirstLF(rest) # 0
       THEN [pw |-> pw, err |-> "nil", pos |-> in.pos + FirstLF(rest)]
       ELSE [pw |-> pw, pos |-> Len(in.data),
             err |-> IF in.end = "EOF" /\ Len(pw) > 0 THEN "nil" ELSE in.end]

\* Mutant of readPasswordLoop: a password of exactly the cap is too long.
readPasswordLoopCapOffByOne(pw, n, b, rerr) ==
    IF n > 0 /\ b # "\r" /\ b = "\n"
    THEN [done |-> TRUE, pw |-> pw, err |-> "nil"]
    ELSE LET take == n > 0 /\ b # "\r"
             pw1 == IF take THEN Append(pw, b) ELSE pw
             err1 == IF take /\ Len(pw1) >= MaxPasswordLen
                     THEN "password too long" ELSE rerr
         IN IF err1 # "nil"
            THEN [done |-> TRUE, pw |-> pw1,
                  err |-> IF err1 = "EOF" /\ Len(pw1) > 0 THEN "nil" ELSE err1]
            ELSE [done |-> FALSE, pw |-> pw1, err |-> "nil"]

\* One iteration of the loop of readPassword, after Read returned n bytes
\* (b the byte) and the error rerr: done with (pw, err), or not yet.
readPasswordLoop(pw, n, b, rerr) ==
    IF n > 0 /\ b # "\r" /\ b = "\n"
    THEN [done |-> TRUE, pw |-> pw, err |-> "nil"]
    ELSE LET take == n > 0 /\ b # "\r"
             pw1 == IF take THEN Append(pw, b) ELSE pw
             err1 == IF take /\ Len(pw1) > MaxPasswordLen
                     THEN "password too long" ELSE rerr
         IN IF err1 # "nil"
            THEN [done |-> TRUE, pw |-> pw1,
                  err |-> IF err1 = "EOF" /\ Len(pw1) > 0 THEN "nil" ELSE err1]
            ELSE [done |-> FALSE, pw |-> pw1, err |-> "nil"]

\* The tail of runKeePassXCCLICommand: the child process is run with the
\* cached password and LF on its standard input (ok: it exits with success);
\* read is the result of readPassword, if it was called.
runChild(password, ok, read, passwordsRead, start) ==
    /\ children' = Append(children, password \o <<"\n">>)
    /\ keePassXC' = [keePassXC EXCEPT
            !.pc = "idle",
            !.pw = << >>,
            !.start = start,
            !.invocations = @ + 1,
            !.passwordsRead = @ \o passwordsRead,
            !.ret = [err |-> read.err, pw |-> read.pw,
                     cmd |-> IF ok THEN "nil" ELSE "exit"]]

\* runKeePassXCCLICommand after readPassword returned (pw, err), the input
\* consumed up to pos.
afterReadPassword(pw, err, start, pos, ok) ==
    /\ stdin' = [stdin EXCEPT !.pos = pos]
    /\ IF err # "nil"
       THEN /\ keePassXC' = [keePassXC EXCEPT
                   !.pc = "idle",
                   !.pw = << >>,
                   !.start = start,
                   !.invocations = @ + 1,
                   !.ret = [err |-> err, pw |-> pw, cmd |-> "none"]]
            /\ UNCHANGED <<keePassXCPassword, children>>
       ELSE /\ keePassXCPassword' = pw
            /\ runChild(pw, ok, [err |-> err, pw |-> pw], <<pw>>, start)

\* runKeePassXCCLICommand, up to the first Read of readPassword when the
\* password is to be read from a standard input that is not a terminal.
runKeePassXCCLICommand ==
    /\ keePassXC.pc = "idle"
    /\ keePassXC.invocations < MaxInvocations
    /\ IF keePassXCPassword # << >>
       THEN /\ \E ok \in BOOLEAN :
                  runChild(keePassXCPassword, ok, [err |-> "none", pw |-> << >>],
                           << >>, keePassXC.start)
            /\ UNCHANGED <<stdin, keePassXCPassword>>
       ELSE IF stdin.tty
       THEN LET r == termReadPassword(stdin)
            IN \E ok \in BOOLEAN :
                   afterReadPassword(r.pw, r.err, stdin.pos, r.pos, ok)
       ELSE /\ keePassXC' = [keePassXC EXCEPT
                   !.pc = "read", !.pw = << >>, !.start = stdin.pos,
                   !.ret = [err |-> "none"]]
            /\ UNCHANGED <<stdin, keePassXCPassword, children>>
    /\ UNCHANGED <<fs, persistentState, runCount, last, walk>>

\* readPassword on a standard input that is not a terminal: one Read and
\* one iteration of its loop; when it returns, the rest of
\* runKeePassXCCLICommand.
readPassword ==
    /\ keePassXC.pc = "read"
    /\ LET rd == osStdinRead(stdin)
           it == readPasswordLoop(keePassXC.pw, rd.n, rd.b, rd.err)
       IN IF it.done
          THEN \E ok \in BOOLEAN :
                  afterReadPassword(it.pw, it.err, keePassXC.start, stdin.pos + rd.n, ok)
          ELSE /\ stdin' = [stdin EXCEPT !.pos = @ + rd.n]
               /\ keePassXC' = [keePassXC EXCEPT !.pw = it.pw]
               /\ UNCHANGED <<keePassXCPassword, children>>
    /\ UNCHANGED <<fs, persistentState, runCount, last, walk>>

\* The inputs: short lines with and without CR, LF and a second line, and
\* lines at and over the cap.
Repeat(b, n) == [i \in 1..n |-> b]
StdinData ==
    {<< >>, <<"\n">>, <<"\r">>, <<"\r", "\n">>, <<"s">>, <<"s", "\n">>,
     <<"s", "\r">>, <<"s", "\r", "\n", "t", "\n">>, <<"\n", "s", "\n">>,
     <<"\r", "\n", "\n">>}
        \cup {Repeat("p", n) \o tail :
                 n \in {MaxPasswordLen, MaxPasswordLen + 1},
                 tail \in {<< >>, <<"\n">>}}
        \cup {<<"\r">> \o Repeat("p", MaxPasswordLen) \o <<"\r", "\n">>}

InitKeePassXC ==
    /\ fs = [p \in Paths |-> Absent]
    /\ persistentState = {}
    /\ runCount = NoRuns
    /\ last = [op |-> "none"]
    /\ walk = NoWalk
    /\ stdin \in [tty : BOOLEAN, data : StdinData, pos : {0}, end : {"EOF", "EIO"}]
    /\ keePassXCPassword = << >>
    /\ keePassXC = Idle
    /\ children = << >>

NextKeePassXC == runKeePassXCCLICommand \/ readPassword

SpecKeePassXC == InitKeePassXC /\ [][NextKeePassXC]_vars

(***************************************************************************)
(* The supporting utilities applied to permissions and to paths.           *)
(***************************************************************************)
\* Permissions of 12 bits: none, single bits, the usual modes, modes with
\* the setuid, setgid and sticky bits, all bits.
Perms == {0, 1, 18, 63, 420, 438, 448, 493, 511, 2048, 2541, 4095}

\* Paths and directories as strings over a small alphabet.
PathChars == {"/", "h", "a"}
Strings(n) == UNION {[1..k -> PathChars] : k \in 0..n}

ComparePerms ==
    /\ last.op = "none"
    /\ \E perm1 \in Perms, perm2 \in Perms, umask \in Perms :
          last' = [op |-> "umaskPermEqual", perm1 |-> perm1, perm2 |-> perm2,
                   umask |-> umask,
                   equal |-> umaskPermEqual(perm1, perm2, umask)]
    /\ UNCHANGED <<fs, persistentState, runCount, walk, keePassXCVars>>

TrimPath ==
    /\ last.op = "none"
    /\ \E path \in Strings(MaxPathLen), dir \in Strings(2) :
          last' = [op |-> "TrimDirPrefix", path |-> path, dir |-> dir,
                   ret |-> TrimDirPrefix(path, dir)]
    /\ UNCHANGED <<fs, persistentState, runCount, walk, keePassXCVars>>

NextUtil == ComparePerms \/ TrimPath \/ NextEntry

SpecUtil == Init /\ [][NextUtil]_vars

(***************************************************************************)
(* Properties of Apply and Equal.                                          *)
(***************************************************************************)
Applied == last.op = "apply"
Succeeded == Applied /\ last.err = "nil"

\* The actual state entry probed again after the Apply, its reads succeeding.
Reprobe == GetActualStateEntry(fs, last.path, TRUE)
EqualAfter == TargetStateEntryEqual(last.target, Reprobe, last.umask)

\* C1 as stated: for every variant, after an Apply that returned no error,
\* Equal of the re-probed entry is true.
C1_ApplyThenEqualAllVariants ==
    Succeeded => EqualAfter = [eq |-> TRUE, err |-> "nil"]

\* C1 amended: for every variant but rename-directory (whose Equal is always
\* false), after an Apply that returned no error, Equal of the re-probed
\* entry is true.
C1_ApplyThenEqual ==
    Succeeded /\ last.target.kind # "renamedir"
        => EqualAfter = [eq |-> TRUE, err |-> "nil"]

C1_Witness ==
    /\ Succeeded
    /\ last.target.kind = "file"
    /\ last.actual.kind = "symlink"
    /\ Mutating(last.ops) # << >>
    /\ EqualAfter.eq

\* The second of two Apply calls in succession, the actual state probed again.
SecondApply(fail) ==
    TargetStateEntryApply(last.target, Reprobe, last.umask, persistentState, fail)
SecondApplyChangesNothing ==
    \A fail \in 0..1 :
        /\ Mutating(SecondApply(fail).ops) = << >>
        /\ ExecCalls([fs |-> fs, ps |-> persistentState], SecondApply(fail).done,
                     last.umask, TRUE)
             = [fs |-> fs, ps |-> persistentState]

\* C2 as stated: for every variant, a second Apply after a successful one
\* issues no mutating backend call and leaves the backend state as it is.
C2_IdempotentAllVariants == Succeeded => SecondApplyChangesNothing

\* The variants that act again on every Apply: rename-directory, and a script
\* with contents that is not a once-script.
ActsEveryTime(t) ==
    \/ t.kind = "renamedir"
    \/ t.kind = "script" /\ ~t.once /\ ~isEmpty(t.lazy.v)

\* C2 amended: for absent, directory, file, present and symlink targets, for
\* once-scripts and for scripts without contents, a second Apply after a
\* successful one issues no mutating backend call and leaves the backend
\* state as it is.
C2_Idempotent ==
    Succeeded /\ ~ActsEveryTime(last.target) => SecondApplyChangesNothing

C2_Witness ==
    /\ Succeeded
    /\ ~ActsEveryTime(last.target)
    /\ last.target.kind = "script"
    /\ RanScript(last.ops)
    /\ SecondApplyChangesNothing

\* C3: after a successful Apply of a file target with contents C and perm P
\* the path holds a regular file with bytes C whose mode equals P under the
\* umask.
C3_FileInstalled ==
    Succeeded /\ last.target.kind = "file"
        => /\ fs[last.path].kind = "file"
           /\ fs[last.path].contents = last.target.lazy.v
           /\ AndNot(fs[last.path].perm, last.umask)
                = AndNot(last.target.perm, last.umask)

C3_Witness ==
    /\ Succeeded
    /\ last.target.kind = "file"
    /\ last.actual.kind = "dir"
    /\ fs[last.path].kind = "file"
    /\ fs[last.path].perm # last.target.perm

\* The actual entry is a file and both content hashes are known.
FileOnFile ==
    /\ Applied
    /\ last.target.kind = "file"
    /\ last.actual.kind = "file"
    /\ last.actual.lazy.ok
    /\ last.target.lazy.ok
SameContents == Sha256(last.actual.lazy.v) = Sha256(last.target.lazy.v)

TheWriteFile == CallWriteFile(last.path, last.target.lazy.v, last.target.perm)

\* C8 as stated: on a file with other contents, Apply removes the entry and
\* then writes the target contents.
C8_RemoveBeforeRewrite ==
    FileOnFile /\ ~SameContents
        => last.ops = <<CallRemoveAll(last.path), TheWriteFile>>

\* C8 amended: on a file with other contents, Apply writes the target
\* contents in place: its only backend call is WriteFile(path, contents,
\* perm), and no remove is issued.
C8_RewriteInPlace ==
    FileOnFile /\ ~SameContents => last.ops = <<TheWriteFile>>

C8_Witness ==
    /\ FileOnFile
    /\ ~SameContents
    /\ Succeeded
    /\ fs[last.path].contents = last.target.lazy.v

\* C9: on a file with the target's contents, Apply issues no RemoveAll and no
\* WriteFile: exactly one Chmod(path, perm) if the permissions differ under
\* the umask, and no backend call at all if they are equal under it.
C9_ChmodOnly ==
    FileOnFile /\ SameContents
        => IF umaskPermEqual(last.actual.perm, last.target.perm, last.umask)
           THEN last.ops = << >>
           ELSE last.ops = <<CallChmod(last.path, last.target.perm)>>

C9_Witness ==
    /\ FileOnFile
    /\ SameContents
    /\ Succeeded
    /\ last.ops = <<CallChmod(last.path, last.target.perm)>>
    /\ fs[last.path].perm = last.target.perm

\* The kind of actual entry a target leaves in place.
KindOf(t) == IF t.kind = "present" THEN "file" ELSE t.kind
Creating == {"Mkdir", "WriteFile", "WriteSymlink"}
AcrossKinds ==
    /\ Applied
    /\ last.target.kind \in {"dir", "file", "present", "symlink"}
    /\ last.actual.kind \notin {"absent", KindOf(last.target)}

\* C10: when Apply of a directory, file, present or symlink target replaces
\* an entry of another kind, the creating call is preceded by the RemoveAll
\* of the same path; if the remove fails the creating call is not issued,
\* the error is returned and the entry stays.
C10_RemoveBeforeCreate ==
    AcrossKinds
        => /\ \A i \in 1..Len(last.ops) :
                last.ops[i].op \in Creating
                    => /\ i = 2
                       /\ last.ops[1] = CallRemoveAll(last.path)
                       /\ last.ops[i].path = last.path
           /\ last.err = "nil" => Len(last.ops) = 2
           /\ last.err = "system" /\ Len(last.ops) = 1
                => /\ last.ops[1] = CallRemoveAll(last.path)
                   /\ fs[last.path].kind = last.actual.kind

C10_Witness ==
    /\ AcrossKinds
    /\ Succeeded
    /\ last.target.kind = "dir"
    /\ last.ops = <<CallRemoveAll(last.path),
                    CallMkdir(last.path, last.target.perm)>>

(***************************************************************************)
(* Properties of once-scripts.                                             *)
(***************************************************************************)
OnceScript ==
    /\ Applied
    /\ last.target.kind = "script"
    /\ last.target.once
    /\ last.target.lazy.ok
TheKey == HexEncodeToString(Sha256(last.target.lazy.v))
Recorded(ps, key) == \E r \in ps : r.bucket = "scriptOnceState" /\ r.key = key

\* Every lookup and every write of the once-script goes to the bucket
\* "scriptOnceState" under the key hex(sha256(contents)).
KeyIsDigest ==
    OnceScript
        => \A i \in 1..Len(last.ops) :
              last.ops[i].op \in {"Get", "Set"}
                  => /\ last.ops[i].bucket = "scriptOnceState"
                     /\ last.ops[i].key = TheKey

\* C4 as stated: over any number of Apply calls on one persistent state,
\* RunScript is invoked at most once for a once-script, and its key is
\* hex(sha256(contents)).
C4_InvokedAtMostOnce ==
    /\ \A c \in ScriptContents : runCount[c].invoked <= 1
    /\ KeyIsDigest

\* C4 amended: once the record of a once-script is in the bucket RunScript is
\* never invoked for it again, so over any number of Apply calls at most one
\* Apply that returns success invokes RunScript (an Apply whose RunScript or
\* record write fails leaves no record, and the next Apply runs the script
\* again); its key is hex(sha256(contents)).
C4_RunOnceRecorded ==
    /\ \A c \in ScriptContents : runCount[c].applied <= 1
    /\ OnceScript /\ RanScript(last.ops) => ~Recorded(last.ps, TheKey)
    /\ KeyIsDigest

C4_Witness ==
    /\ OnceScript
    /\ Recorded(last.ps, TheKey)
    /\ last.ops = <<CallGet("scriptOnceState", TheKey)>>
    /\ runCount[last.target.lazy.v].invoked = 2
    /\ runCount[last.target.lazy.v].applied = 1

NewOnceScript ==
    /\ OnceScript
    /\ ~isEmpty(last.target.lazy.v)
    /\ ~Recorded(last.ps, TheKey)
\* RunScript was issued and returned no error.
RunScriptSucceeded ==
    \E i \in 1..Len(last.ops) :
        /\ last.ops[i].op = "RunScript"
        /\ ~(last.err = "system" /\ i = Len(last.ops))

\* C5 as stated: a once-script with contents whose key is not in the bucket
\* is run, and when RunScript succeeds the bucket holds the key afterwards.
C5_NewKeyRunsAndIsRecorded ==
    NewOnceScript
        => /\ RanScript(last.ops)
           /\ RunScriptSucceeded => Recorded(persistentState, TheKey)

\* C5 amended: a once-script with contents whose key is not in the bucket is
\* run provided the lookup returns no error, and when RunScript and the write
\* of the record both succeed the bucket holds the key afterwards; this
\* whatever other keys are recorded and whatever the script's name is.
C5_NewKeyRuns ==
    NewOnceScript
        => /\ ~(last.err = "system" /\ Len(last.ops) = 1) => RanScript(last.ops)
           /\ last.err = "nil"
                => /\ RunScriptSucceeded
                   /\ Recorded(persistentState, TheKey)
                   /\ PersistentGet(persistentState, "scriptOnceState", TheKey)
                        = {scriptOnceState(last.target.name)}

\* The script ran although another key was recorded under its own name.
C5_Witness ==
    /\ NewOnceScript
    /\ Succeeded
    /\ \E r \in last.ps : r.key # TheKey /\ r.value.Name = last.target.name
    /\ RanScript(last.ops)
    /\ Recorded(persistentState, TheKey)

(***************************************************************************)
(* Properties of verify.                                                   *)
(***************************************************************************)
Verified == last.op = "verify"
Managed == {p \in Paths : last.sourceState[p] # NotManaged}
\* What applying the target of path would ask of the backend.
WouldApply(p) ==
    TargetStateEntryApply(last.sourceState[p],
                          GetActualStateEntry(fs, p, last.readOk), last.umask,
                          persistentState, 0)
\* Whether the pass fails at path p.
FailsAt(p) ==
    \/ TargetStateEntryEvaluate(last.sourceState[p]) # "nil"
    \/ WouldApply(p).err # "nil"
WouldModify(p) == ~FailsAt(p) /\ Mutating(WouldApply(p).ops) # << >>

\* C6: verify returns success if the pass over the dry-run backend leaves it
\* unmodified and exit code 1 if any target asked for a modification; if the
\* pass fails, the error is returned whether or not the backend was modified.
C6_VerifyExitCode ==
    Verified
        => /\ last.result = "error" <=> \E p \in Managed : FailsAt(p)
           /\ last.result = "exit1"
                <=> /\ \A p \in Managed : ~FailsAt(p)
                    /\ \E p \in Managed : WouldModify(p)
           /\ last.result = "nil"
                <=> \A p \in Managed : ~FailsAt(p) /\ ~WouldModify(p)
           /\ last.result = "nil" => ~last.modified
           /\ last.result = "exit1" => last.modified

\* The destination misses a path whose target is a regular file, and a later
\* target fails after the backend was modified.
C6_Witness ==
    /\ Verified
    /\ last.result = "error"
    /\ last.modified
    /\ fs[SortedPaths[1]].kind = "absent"
    /\ last.sourceState[SortedPaths[1]].kind = "file"

(***************************************************************************)
(* Properties of the unmanaged listing.                                    *)
(***************************************************************************)
Listed == walk.op = "done" /\ ~walk.err
Unlisted(n) == RelString(n) \in walk.managed \/ RelString(n) \in walk.ignored
\* The entries neither managed nor ignored that lie in managed directories
\* that are not ignored.
Unmanaged ==
    {n \in WalkNodes :
        /\ walk.tree[n] # "absent"
        /\ ~Unlisted(n)
        /\ \A k \in 1..(Len(n) - 1) :
              /\ walk.tree[SubSeq(n, 1, k)] = "dir"
              /\ RelString(SubSeq(n, 1, k)) \in walk.managed
              /\ RelString(SubSeq(n, 1, k)) \notin walk.ignored}

\* C7: the listing writes exactly the relative paths of the entries that are
\* neither managed nor ignored and whose ancestors below the destination
\* directory are all managed directories that are not ignored, each once;
\* it never writes the destination directory itself.
C7_UnmanagedListing ==
    Listed
        => /\ {walk.output[i] : i \in 1..Len(walk.output)}
                = {RelString(n) : n \in Unmanaged}
           /\ Len(walk.output) = Cardinality(Unmanaged)
           /\ \A i \in 1..Len(walk.output) : walk.output[i] # << >>

\* A directory that is not managed is written and what it holds is not; an
\* entry in a managed directory is written.
C7_Witness ==
    /\ Listed
    /\ walk.output = <<<<"a", "/", "c">>, <<"b">>>>
    /\ walk.tree[<<"a", "c", "c">>] = "file"
    /\ walk.tree[<<"b">>] = "dir"

(***************************************************************************)
(* Scripts without contents.                                               *)
(***************************************************************************)
EmptyScript ==
    /\ Applied
    /\ last.target.kind = "script"
    /\ last.target.lazy.ok
    /\ isEmpty(last.target.lazy.v)
WroteRecord(calls) == \E i \in 1..Len(calls) : calls[i].op = "Set"
LookupFailed ==
    /\ last.err = "system"
    /\ last.ops = <<CallGet("scriptOnceState", TheKey)>>

\* C11 as stated: Apply of a script whose contents are empty or white space
\* issues no RunScript, writes nothing to the persistent state and returns
\* success, once or not.
C11_EmptyScriptSucceeds ==
    EmptyScript
        => /\ ~RanScript(last.ops)
           /\ ~WroteRecord(last.ops)
           /\ persistentState = last.ps
           /\ last.err = "nil"

\* C11 amended: Apply of a script whose contents are empty or white space
\* issues no RunScript and writes nothing to the persistent state, once or
\* not; it returns success unless the script is a once-script and the lookup
\* of its key returns an error, which Apply then returns.
C11_EmptyScriptNoOp ==
    EmptyScript
        => /\ ~RanScript(last.ops)
           /\ ~WroteRecord(last.ops)
           /\ Mutating(last.ops) = << >>
           /\ persistentState = last.ps
           /\ last.err # "nil" <=> last.target.once /\ LookupFailed

C11_Witness ==
    /\ EmptyScript
    /\ last.target.once
    /\ last.target.lazy.v = <<" ", "\n">>
    /\ last.err = "nil"
    /\ last.ops = <<CallGet("scriptOnceState", TheKey)>>
    /\ ~Recorded(persistentState, TheKey)

(***************************************************************************)
(* Properties of the credential tool.                                      *)
(***************************************************************************)
\* readPassword has returned, from a standard input that is not a terminal.
ReadPasswordReturned ==
    /\ keePassXC.pc = "idle"
    /\ keePassXC.ret.err # "none"
    /\ ~stdin.tty
\* What readPassword had before it: the bytes, and the line without its CRs.
Offered == Rest(stdin.data, keePassXC.start)
OfferedLine == StripCR(Line(Offered))

\* C12: reading from a standard input that is not a terminal, readPassword
\* returns the bytes before the first LF without their CRs and consumes no
\* byte after that LF; an input that ends without LF is a password if it
\* holds bytes other than CR, and an error if it holds no byte at all, and
\* is accepted only if it holds some byte; a password of more than 1024
\* bytes is an error.
C12_ReadPassword ==
    ReadPasswordReturned
        => IF Len(OfferedLine) > MaxPasswordLen
           THEN keePassXC.ret.err \notin {"nil", "EOF", "EIO"}
           ELSE IF FirstLF(Offered) # 0
           THEN /\ keePassXC.ret.err = "nil"
                /\ keePassXC.ret.pw = OfferedLine
                /\ stdin.pos = keePassXC.start + FirstLF(Offered)
           ELSE /\ stdin.end = "EOF" /\ OfferedLine # << >>
                    => /\ keePassXC.ret.err = "nil"
                       /\ keePassXC.ret.pw = OfferedLine
                /\ Offered = << >> => keePassXC.ret.err = stdin.end
                /\ keePassXC.ret.err = "nil" => Offered # << >>

\* A password of exactly 1024 bytes, with CRs around it, is read.
C12_Witness ==
    /\ ReadPasswordReturned
    /\ keePassXC.ret.err = "nil"
    /\ Len(keePassXC.ret.pw) = MaxPasswordLen
    /\ Len(Line(Offered)) = MaxPasswordLen + 2

\* C13: over the invocations of the credential tool in one process, a
\* password is read successfully at most once, and every child process is
\* given that password followed by LF on its standard input.
C13_PasswordReadOnce ==
    /\ Len(keePassXC.passwordsRead) <= 1
    /\ \A i \in 1..Len(children) :
          /\ keePassXC.passwordsRead # << >>
          /\ children[i] = keePassXC.passwordsRead[1] \o <<"\n">>

(***************************************************************************)
(* Properties of the supporting utilities.                                 *)
(***************************************************************************)
PermsCompared == last.op = "umaskPermEqual"
Bit(x, i) == (x \div 2^i) % 2
\* (perm1 & ~umask) == (perm2 & ~umask), bit by bit over the 12 bits.
EqualOutsideUmask(perm1, perm2, umask) ==
    \A i \in 0..11 : Bit(umask, i) = 0 => Bit(perm1, i) = Bit(perm2, i)

\* C14: umaskPermEqual(p1, p2, u) is true exactly if p1 and p2 agree on
\* every bit that is not set in u; so it is true of p and p, and with
\* umask 0 it is true exactly if p1 = p2.
C14_UmaskPermEqual ==
    PermsCompared
        => /\ last.equal
                <=> EqualOutsideUmask(last.perm1, last.perm2, last.umask)
           /\ last.perm1 = last.perm2 => last.equal
           /\ last.umask = 0 => (last.equal <=> last.perm1 = last.perm2)

\* 0o644 and 0o666 are equal under the umask 0o022.
C14_Witness ==
    /\ PermsCompared
    /\ last.perm1 = 420
    /\ last.perm2 = 438
    /\ last.umask = 18
    /\ last.equal

Trimmed == last.op = "TrimDirPrefix"
\* path is dir, then "/", then something.
HasDirPrefix(path, dir) ==
    /\ Len(path) > Len(dir)
    /\ \A i \in 1..Len(dir) : path[i] = dir[i]
    /\ path[Len(dir) + 1] = "/"

\* C15: for a path that starts with dir + "/", TrimDirPrefix returns without
\* error a result r with dir + "/" + r = path; for any other path (dir
\* itself among them) it returns an error and the empty string.
C15_TrimDirPrefix ==
    Trimmed
        => IF HasDirPrefix(last.path, last.dir)
           THEN /\ ~last.ret.err
                /\ last.dir \o <<"/">> \o last.ret.v = last.path
           ELSE /\ last.ret.err
                /\ last.ret.v = << >>

C15_Witness ==
    /\ Trimmed
    /\ last.dir = <<"/", "h">>
    /\ last.path = <<"/", "h", "/", "a">>
    /\ last.ret = [v |-> <<"a">>, err |-> FALSE]

(***************************************************************************)
(* Properties of present and symlink targets.                              *)
(***************************************************************************)
\* The remove of the actual entry: RemoveAll of the path, if there is an
\* entry.
TheRemove ==
    IF last.actual.kind = "absent" THEN << >> ELSE <<CallRemoveAll(last.path)>>
\* The calls issued are the calls expected, up to the one that failed.
IssuedInOrder(expected) ==
    /\ Len(last.ops) <= Len(expected)
    /\ last.ops = SubSeq(expected, 1, Len(last.ops))
    /\ last.err = "nil" => last.ops = expected
    /\ last.err # "nil" => last.ops # << >>

PresentApplied == Applied /\ last.target.kind = "present"

\* C16: Apply of a present target on a file issues no WriteFile and no
\* RemoveAll, whatever the file holds, and Chmod(path, perm) exactly if the
\* permissions differ under the umask; on anything else it removes the entry
\* and then writes the contents with the target's permissions.
C16_PresentApply ==
    PresentApplied
        => IF last.actual.kind = "file"
           THEN last.ops =
                    IF umaskPermEqual(last.actual.perm, last.target.perm,
                                      last.umask)
                    THEN << >>
                    ELSE <<CallChmod(last.path, last.target.perm)>>
           ELSE last.target.lazy.ok
                    => /\ IssuedInOrder(TheRemove \o <<TheWriteFile>>)
                       /\ Succeeded
                            => /\ fs[last.path].kind = "file"
                               /\ fs[last.path].contents = last.target.lazy.v

\* A file with other contents than the target's, which cannot even be read,
\* gets its permissions changed and nothing else.
C16_Witness ==
    /\ PresentApplied
    /\ last.actual.kind = "file"
    /\ ~last.actual.lazy.ok
    /\ fs[last.path].contents # last.target.lazy.v
    /\ last.ops = <<CallChmod(last.path, last.target.perm)>>
    /\ Succeeded

SymlinkApplied ==
    /\ Applied
    /\ last.target.kind = "symlink"
    /\ last.target.lazy.ok
    /\ last.actual.kind = "symlink" => last.actual.lazy.ok
SameLinkname ==
    last.actual.kind = "symlink" /\ last.actual.lazy.v = last.target.lazy.v

\* C17: Apply of a symlink target on a symlink with the same link name
\* issues no backend call; on anything else it removes the entry and then
\* issues WriteSymlink(linkname, path), and Equal is true afterwards.
C17_SymlinkApply ==
    SymlinkApplied
        => IF SameLinkname
           THEN last.ops = << >> /\ last.err = "nil"
           ELSE /\ IssuedInOrder(
                      TheRemove
                          \o <<CallWriteSymlink(last.target.lazy.v, last.path)>>)
                /\ Succeeded => EqualAfter = [eq |-> TRUE, err |-> "nil"]

\* The link "o" is replaced by the link "n".
C17_Witness ==
    /\ SymlinkApplied
    /\ last.actual.kind = "symlink"
    /\ last.actual.lazy.v = <<"o">>
    /\ last.target.lazy.v = <<"n">>
    /\ Succeeded
    /\ last.ops = <<CallRemoveAll(last.path),
                    CallWriteSymlink(<<"n">>, last.path)>>
    /\ EqualAfter.eq

(***************************************************************************)
(* Once-scripts whose lookup or run fails.                                 *)
(***************************************************************************)
RunScriptFailed ==
    /\ last.err = "system"
    /\ last.ops # << >>
    /\ last.ops[Len(last.ops)].op = "RunScript"
\* The record is written only after a RunScript that returned no error.
RecordAfterRun ==
    \A i \in 1..Len(last.ops) :
        last.ops[i].op = "Set"
            => \E j \in 1..(i - 1) : last.ops[j].op = "RunScript"
\* A later Apply of the same script, its calls succeeding, runs the script.
LaterApplyRuns == RanScript(SecondApply(0).ops)

\* C18 as stated: the record of a once-script is written only after
\* RunScript returned success; if the lookup or RunScript returns an error,
\* Apply returns it, the bucket is left as it was, and a later Apply of the
\* same contents runs the script again.
C18_FailureThenRetry ==
    OnceScript
        => /\ RecordAfterRun
           /\ LookupFailed \/ RunScriptFailed
                => /\ last.err = "system"
                   /\ persistentState = last.ps
                   /\ LaterApplyRuns

\* C18 amended: as stated, but after a failed lookup a later Apply runs the
\* script only if its key was not recorded before and its contents are not
\* empty; after a failed RunScript it always does.
C18_RecordOnlyAfterRun ==
    OnceScript
        => /\ RecordAfterRun
           /\ LookupFailed \/ RunScriptFailed
                => /\ last.err = "system"
                   /\ persistentState = last.ps
                   /\ ~WroteRecord(last.ops)
                   /\ RunScriptFailed => LaterApplyRuns
                   /\ LookupFailed
                        => (LaterApplyRuns
                              <=> /\ ~Recorded(last.ps, TheKey)
                                  /\ ~isEmpty(last.target.lazy.v))

C18_Witness ==
    /\ OnceScript
    /\ RunScriptFailed
    /\ last.target.lazy.v = <<"e", "!">>
    /\ runCount[<<"e", "!">>].invoked = 2
    /\ ~Recorded(persistentState, TheKey)
    /\ LaterApplyRuns

(***************************************************************************)
(* Lazy contents and link names that fail to evaluate.                     *)
(***************************************************************************)
\* Apply returned the error of the target's contents or link name.
EvaluationFailed ==
    /\ Applied
    /\ last.target.kind \in {"file", "present", "script", "symlink"}
    /\ last.err = "eval"

\* C19: when the target's contents or link name fail to evaluate, Apply of a
\* file, present, script or symlink target returns that error and has issued
\* no mutating backend call, whatever the actual entry is.
C19_EvaluationFailureNoMutation ==
    EvaluationFailed => Mutating(last.ops) = << >>

\* Equal came to evaluate a contents hash or a link name: the entry is of
\* the target's kind and, for a file, its permissions are the target's
\* under the umask.
Compared ==
    /\ last.op = "equal"
    /\ last.target.kind \in {"file", "symlink"}
    /\ last.actual.kind = last.target.kind
    /\ last.target.kind = "file"
         => umaskPermEqual(last.actual.perm, last.target.perm, last.umask)

\* C20: when the contents hash or the link name of either side fails to
\* evaluate, Equal of a file target or of a symlink target returns the
\* error, never (false, nil).
C20_EqualReturnsEvaluationError ==
    Compared /\ (~last.actual.lazy.ok \/ ~last.target.lazy.ok)
        => last.ret.err # "nil"

(***************************************************************************)
(* Entries are applied independently of each other.                        *)
(***************************************************************************)
EntryKinds == {"absent", "dir", "file", "present", "symlink"}
EntryOps == {"RemoveAll", "WriteFile", "WriteSymlink", "Mkdir", "Chmod"}
\* The directory of the probed path, and the two paths a rename is about.
RenamedPaths(path, t) ==
    {pathJoin(pathDir(path), t.oldName), pathJoin(pathDir(path), t.newName)}

\* The backend calls of the Apply that ran last are those of its variant:
\* calls on the probed path alone; RunScript and the lookup and write of the
\* once record alone; the rename of oldName to newName in the directory of
\* the probed path alone.
OwnCallsOnly ==
    Applied
        => \A i \in 1..Len(last.ops) :
             CASE last.target.kind \in EntryKinds ->
                    /\ last.ops[i].op \in EntryOps
                    /\ last.ops[i].path = last.path
               [] last.target.kind = "script" ->
                    /\ last.ops[i].op \in {"RunScript", "Get", "Set"}
                    /\ last.ops[i].op \in {"Get", "Set"}
                         => last.ops[i].bucket = "scriptOnceState"
               [] last.target.kind = "renamedir" ->
                    last.ops[i] =
                        CallRename(
                            pathJoin(pathDir(last.path), last.target.oldName),
                            pathJoin(pathDir(last.path), last.target.newName))

\* What a step that applies an entry leaves as it was: every other path and
\* the persistent state; the whole destination, for a script; every path
\* but the renamed ones and the persistent state, for a rename.
ApplyFrame ==
    last'.op = "apply"
        => CASE last'.target.kind \in EntryKinds ->
                  /\ \A p \in Paths \ {last'.path} : fs'[p] = fs[p]
                  /\ persistentState' = persistentState
             [] last'.target.kind = "script" -> fs' = fs
             [] last'.target.kind = "renamedir" ->
                  /\ \A p \in Paths \ RenamedPaths(last'.path, last'.target) :
                        fs'[p] = fs[p]
                  /\ persistentState' = persistentState

\* C21: Apply of an absent, directory, file, present or symlink target issues
\* backend calls on the probed path alone, changes no other path and neither
\* reads nor writes the persistent state; Apply of a script target changes
\* nothing in the destination and issues RunScript and the lookup and write
\* of its once record alone; Apply of a rename-directory target touches
\* oldName and newName in the directory of the probed path alone.
C21_IndependentEntries == []OwnCallsOnly /\ [][ApplyFrame]_vars

\* A rename applied at /home/a has moved the directory /home/b, a path other
\* than the probed one.
C21_Witness ==
    /\ Succeeded
    /\ last.target = TargetStateRenameDir("b", "a")
    /\ last.path = Append(DestDir, "a")
    /\ last.actual.kind = "absent"
    /\ fs[Append(DestDir, "a")].kind = "dir"
    /\ fs[Append(DestDir, "b")] = Absent

====
